---- MODULE Spec2Model ----
(***************************************************************************)
(* A model of gcs-uri (src/src/gcs_uri.py): the scheme-dispatch copy       *)
(* engine (copy_file, copy_dir, copy_files), its address helpers and its   *)
(* transfer strategies.                                                    *)
(*                                                                         *)
(* Strings are sequences of one-character strings.  An address is a record *)
(* [kind, s, bucket]: kind "str" (s is the text), "Path" (s is str(path))  *)
(* or "Blob" (s is blob.name, bucket is blob.bucket.name).                 *)
(***************************************************************************)
EXTENDS Integers, Sequences, FiniteSets, TLC

VARIABLES
    \* _flatten (one call)
    spb, filename_s, fl_pc,
    \* copy_files, destination resolution (lines 104-119)
    srcs, dsts, dsts_, submitted, cf_pc,
    \* copy_files, thread pool (lines 114-127)
    batch, client, quiet, pc, task, completed, finished, yielded, i,
    clients, stdout, raised, left,
    \* _copy (one call from copy_file / copy_dir)
    c_fn, c_src, c_dst, c_client, c_quiet, c_pc, c_built, c_used, c_strategy,
    c_stdout, c_err,
    \* single-file strategies (_download_file, _upload_file)
    f_fn, f_src, f_dst, f_handle, f_dirs, f_files, f_objects, f_target, f_pc,
    \* tree strategies (_sync_files, _upload_dir, _download_dir, _sync_blobs)
    d_fn, d_src, d_dst, d_tree, d_todo, d_dirs, d_written, d_pending,
    d_failed, d_pc

flattenVars == <<spb, filename_s, fl_pc>>
resolveVars == <<srcs, dsts, dsts_, submitted, cf_pc>>
poolVars    == <<batch, client, quiet, pc, task, completed, finished, yielded,
                 i, clients, stdout, raised, left>>
copyVars    == <<c_fn, c_src, c_dst, c_client, c_quiet, c_pc, c_built, c_used,
                 c_strategy, c_stdout, c_err>>
fileVars    == <<f_fn, f_src, f_dst, f_handle, f_dirs, f_files, f_objects,
                 f_target, f_pc>>
dirVars     == <<d_fn, d_src, d_dst, d_tree, d_todo, d_dirs, d_written,
                 d_pending, d_failed, d_pc>>
vars == <<flattenVars, resolveVars, poolVars, copyVars, fileVars, dirVars>>

-----------------------------------------------------------------------------
(* Characters and strings *)

Digits == {"0", "1", "2", "3", "4", "5", "6", "7", "8", "9"}
LowerSeq == <<"a", "b", "c", "d", "e", "f", "g", "h", "i", "j", "k", "l", "m",
              "n", "o", "p", "q", "r", "s", "t", "u", "v", "w", "x", "y", "z">>
UpperSeq == <<"A", "B", "C", "D", "E", "F", "G", "H", "I", "J", "K", "L", "M",
              "N", "O", "P", "Q", "R", "S", "T", "U", "V", "W", "X", "Y", "Z">>
Range(f) == {f[k] : k \in DOMAIN f}
Letters == Range(LowerSeq) \cup Range(UpperSeq)

\* str.lower() on one character
lower(c) ==
    IF c \in Range(UpperSeq)
    THEN LowerSeq[CHOOSE k \in DOMAIN UpperSeq : UpperSeq[k] = c]
    ELSE c

Lower(s) == [k \in DOMAIN s |-> lower(s[k])]

\* All strings over alphabet A of length at most n
StringsUpTo(A, n) == UNION {[1..k -> A] : k \in 0..n}

\* str.find(c): the first index (1-based) of c in s, 0 when absent
find(s, c) ==
    IF \E k \in DOMAIN s : s[k] = c
    THEN CHOOSE k \in DOMAIN s : s[k] = c /\ \A j \in 1..(k - 1) : s[j] # c
    ELSE 0

\* str.rfind(c): the last index of c in s, 0 when absent
rfind(s, c) ==
    IF \E k \in DOMAIN s : s[k] = c
    THEN CHOOSE k \in DOMAIN s : s[k] = c /\ \A j \in (k + 1)..Len(s) : s[j] # c
    ELSE 0

startswith(s, p) == Len(s) >= Len(p) /\ SubSeq(s, 1, Len(p)) = p
endswith(s, p) == Len(s) >= Len(p) /\ SubSeq(s, Len(s) - Len(p) + 1, Len(s)) = p
DropFirst(s, n) == SubSeq(s, n + 1, Len(s))

RECURSIVE lstrip(_, _)
lstrip(s, C) == IF s # <<>> /\ Head(s) \in C THEN lstrip(Tail(s), C) ELSE s

RECURSIVE rstrip(_, _)
rstrip(s, C) ==
    IF s # <<>> /\ s[Len(s)] \in C THEN rstrip(SubSeq(s, 1, Len(s) - 1), C) ELSE s

\* posixpath.join(a, b)
join(a, b) ==
    IF startswith(b, <<"/">>) THEN b
    ELSE IF a = <<>> \/ endswith(a, <<"/">>) THEN a \o b
    ELSE a \o <<"/">> \o b

\* posixpath.basename(p)
basename(p) == DropFirst(p, rfind(p, "/"))

\* posixpath.dirname(p)
dirname(p) ==
    LET head == SubSeq(p, 1, rfind(p, "/")) IN
    IF head # <<>> /\ \E k \in DOMAIN head : head[k] # "/"
    THEN rstrip(head, {"/"})
    ELSE head

-----------------------------------------------------------------------------
(* Addresses *)

Str(s) == [kind |-> "str", s |-> s, bucket |-> <<>>]
PathOf(s) == [kind |-> "Path", s |-> s, bucket |-> <<>>]
Blob(name, bucket) == [kind |-> "Blob", s |-> name, bucket |-> bucket]

\* urlunparse(("gs", bucket, name, "", "", "")): a non-empty netloc puts "//"
\* before it and a "/" before a path that does not start with one.
blob_to_uri(blob) ==
    LET url == IF blob.s # <<>> /\ Head(blob.s) # "/"
               THEN <<"/">> \o blob.s ELSE blob.s
        withNetloc == IF blob.bucket # <<>>
                      THEN <<"/", "/">> \o blob.bucket \o url ELSE blob.s
    IN <<"g", "s", ":">> \o withNetloc

\* The class [0-9a-zA-Z_.-] of the two substitutions of _flatten
FlattenSafe == Digits \cup Letters \cup {"_", ".", "-"}

\* re.sub(r"[^0-9a-zA-Z_\.-]+", "-", s): inRun says the previous character
\* was part of the run being replaced.
RECURSIVE SubRuns(_, _)
SubRuns(s, inRun) ==
    IF s = <<>> THEN <<>>
    ELSE IF Head(s) \in FlattenSafe THEN <<Head(s)>> \o SubRuns(Tail(s), FALSE)
    ELSE (IF inRun THEN <<>> ELSE <<"-">>) \o SubRuns(Tail(s), TRUE)

\* A slip: only the leading dashes are removed.
StripDashesLeadingOnly(s) == lstrip(s, {"-"})

\* re.sub(r"(^-+|-+$)", "", s)
StripDashes(s) == rstrip(lstrip(s, {"-"}), {"-"})

flatten(a) ==
    LET s == IF a.kind \in {"str", "Path"} THEN a.s ELSE blob_to_uri(a)
    IN StripDashes(SubRuns(s, FALSE))

-----------------------------------------------------------------------------
(* _parse_scheme (lines 158-172) *)

SchemeChars == Letters \cup Digits \cup {"+", "-", "."}

\* urlsplit removes leading blanks before it looks for the scheme
UrlText(s) == lstrip(s, {" "})

\* urlparse(arg).scheme: the text before the first ":" when it starts with a
\* letter and holds only scheme characters, lower-cased; "" otherwise.
url_scheme(s) ==
    LET url == UrlText(s)
        c == find(url, ":")
    IN IF c > 1 /\ url[1] \in Letters /\ \A k \in 1..(c - 1) : url[k] \in SchemeChars
       THEN Lower(SubSeq(url, 1, c - 1))
       ELSE <<>>

\* What urlsplit leaves after the scheme
url_rest(s) ==
    LET url == UrlText(s) IN
    IF url_scheme(s) # <<>> THEN DropFirst(url, find(url, ":")) ELSE url

\* The netloc: after a leading "//", up to the first of "/", "?", "#"
url_netloc(s) ==
    LET rest == url_rest(s) IN
    IF startswith(rest, <<"/", "/">>)
    THEN LET after == DropFirst(rest, 2)
             stops == {k \in DOMAIN after : after[k] \in {"/", "?", "#"}}
         IN IF stops = {} THEN after
            ELSE SubSeq(after, 1, (CHOOSE k \in stops : \A j \in stops : k <= j) - 1)
    ELSE <<>>

\* urlsplit raises ValueError("Invalid IPv6 URL") on an unmatched bracket
url_raises(s) ==
    LET n == url_netloc(s) IN
    ("[" \in Range(n)) # ("]" \in Range(n))

GS == <<"g", "s">>
FILE == <<"f", "i", "l", "e">>
ValueError == <<"V", "a", "l", "u", "e", "E", "r", "r", "o", "r">>

\* A slip: any scheme that is not local is taken as remote.
parse_scheme_lenient(arg) ==
    IF arg.kind = "str"
    THEN IF url_raises(arg.s) THEN ValueError
         ELSE IF url_scheme(arg.s) \in {<<>>, FILE} THEN <<>>
         ELSE GS
    ELSE IF arg.kind = "Path" THEN <<>>
    ELSE GS

\* _parse_scheme: "" (local), "gs" (remote), or ValueError raised
parse_scheme(arg) ==
    IF arg.kind = "str"
    THEN IF url_raises(arg.s) THEN ValueError
         ELSE IF url_scheme(arg.s) \in {<<>>, FILE} THEN <<>>
         ELSE IF url_scheme(arg.s) = GS THEN GS
         ELSE ValueError
    ELSE IF arg.kind = "Path" THEN <<>>
    ELSE IF arg.kind = "Blob" THEN GS
    ELSE ValueError

-----------------------------------------------------------------------------
(* Idle values: what a specification gives the variables it does not use *)

FlattenIdle == spb = Str(<<>>) /\ filename_s = <<>> /\ fl_pc = "idle"
ResolveIdle ==
    /\ srcs = <<>> /\ dsts = Str(<<>>) /\ dsts_ = <<>> /\ submitted = <<>>
    /\ cf_pc = "idle"
PoolIdle ==
    /\ batch = <<>> /\ client = "None" /\ quiet = FALSE /\ pc = "idle"
    /\ task = <<>> /\ completed = <<>> /\ finished = {} /\ yielded = {}
    /\ i = 0 /\ clients = 0 /\ stdout = {} /\ raised = 0 /\ left = {}
CopyIdle ==
    /\ c_fn = "idle" /\ c_src = Str(<<>>) /\ c_dst = Str(<<>>)
    /\ c_client = "None" /\ c_quiet = FALSE /\ c_pc = "idle" /\ c_built = 0
    /\ c_used = "unset" /\ c_strategy = "none" /\ c_stdout = {}
    /\ c_err = "none"
FileIdle ==
    /\ f_fn = "idle" /\ f_src = Str(<<>>) /\ f_dst = Str(<<>>)
    /\ f_handle = Str(<<>>) /\ f_dirs = {}
    /\ f_files = {} /\ f_objects = {} /\ f_target = <<>> /\ f_pc = "idle"
DirIdle ==
    /\ d_fn = "idle" /\ d_src = <<>> /\ d_dst = <<>> /\ d_tree = {}
    /\ d_todo = {} /\ d_dirs = {} /\ d_written = {} /\ d_pending = {}
    /\ d_failed = FALSE /\ d_pc = "idle"

-----------------------------------------------------------------------------
(* _flatten, one call on one address (lines 215-241) *)

MaxLen == 3
FlattenAlphabet == {"a", "/", "-", " "}
FlattenStrings == StringsUpTo(FlattenAlphabet, MaxLen)

\* str(Path(...)) never holds "//" inside, nor a trailing "/" (but "/" itself),
\* and is "." rather than empty.
IsPathText(s) ==
    /\ s # <<>>
    /\ \A k \in 1..(Len(s) - 1) : ~(s[k] = "/" /\ s[k + 1] = "/")
    /\ (endswith(s, <<"/">>) => s = <<"/">>)

BucketNames == {<<"b">>}
FlattenInputs ==
    {Str(s) : s \in FlattenStrings}
        \cup {PathOf(s) : s \in {t \in FlattenStrings : IsPathText(t)}}
        \cup {Blob(s, b) : s \in FlattenStrings, b \in BucketNames}

FlattenInit ==
    /\ spb \in FlattenInputs /\ filename_s = <<>> /\ fl_pc = "call"
    /\ ResolveIdle /\ PoolIdle /\ CopyIdle /\ FileIdle /\ DirIdle

FlattenCall ==
    /\ fl_pc = "call"
    /\ filename_s' = flatten(spb)
    /\ fl_pc' = "return"
    /\ UNCHANGED <<spb, resolveVars, poolVars, copyVars, fileVars, dirVars>>

FlattenNext == FlattenCall
SpecFlatten == FlattenInit /\ [][FlattenNext]_vars

\* C8: whatever the address, the name _flatten returns holds only characters
\* of [0-9a-zA-Z_.-] and neither begins nor ends with "-".
C8_FlattenSafeName ==
    fl_pc = "return" =>
        /\ \A k \in DOMAIN filename_s : filename_s[k] \in FlattenSafe
        /\ filename_s # <<>> =>
              filename_s[1] # "-" /\ filename_s[Len(filename_s)] # "-"

\* A call whose input has a run of two other characters and a trailing run:
\* the substitution and the strip both acted.
C8_Witness ==
    /\ fl_pc = "return"
    /\ spb = Str(<<"a", "/", "/">>)
    /\ filename_s = <<"a">>

\* C13 as stated: for a Blob, _flatten returns the flattened
\* "<bucket>/<object name>", without a leading "gs" token (the docstring's
\* 'bkt-my-module.py').
C13_BlobWithoutScheme ==
    (fl_pc = "return" /\ spb.kind = "Blob") =>
        filename_s = StripDashes(SubRuns(spb.bucket \o <<"/">> \o spb.s, FALSE))

\* C14 as stated: for a source address that is not empty, the name _flatten
\* returns is not empty.
C14_FlattenNonEmpty ==
    (fl_pc = "return" /\ spb.s # <<>>) => filename_s # <<>>

-----------------------------------------------------------------------------
(* copy_files: resolving the destinations and submitting (lines 104-119) *)

MaxBatch == 2

SrcPool ==
    { Str(<<"a", "/", "b">>), Str(<<"a", "-", "b">>), Str(<<"a", " ", "b">>),
      Str(<<"g", "s", ":", "/", "/", "b", "/", "a">>), Str(<<"/">>),
      PathOf(<<"a", "/", "b">>), Blob(<<"a">>, <<"b">>) }

\* A destination is one address ("one", a directory) or a sequence of them.
One(a) == [form |-> "one", a |-> a, seq |-> <<>>]
Many(q) == [form |-> "seq", a |-> Str(<<>>), seq |-> q]

DirPool ==
    { Str(<<"o">>), Str(<<"o", "/">>), Str(<<>>),
      Str(<<"g", "s", ":", "/", "/", "b", "/", "d">>),
      PathOf(<<"o">>), Blob(<<"d">>, <<"b">>), Blob(<<>>, <<"b">>) }
DstPool == { Str(<<"x">>), Str(<<"y">>), Blob(<<"z">>, <<"b">>) }

SeqsUpTo(S, n) == UNION {[1..k -> S] : k \in 0..n}
Min(a, b) == IF a <= b THEN a ELSE b

\* A slip: the source's basename instead of its flattened name.
dst_name_basename(dir, src) ==
    join(dir, basename(IF src.kind = "Blob" THEN blob_to_uri(src) ELSE src.s))

\* op.join(dsts, _flatten(src)), lines 105 and 109
dst_name(dir, src) == join(dir, flatten(src))

\* A slip: a sequence of destinations is repeated to the length of the sources.
resolve_cycled(ss, d) ==
    IF d.form = "one" /\ d.a.kind \in {"str", "Path"}
    THEN [k \in DOMAIN ss |-> Str(dst_name(d.a.s, ss[k]))]
    ELSE IF d.form = "one"
    THEN [k \in DOMAIN ss |-> Blob(dst_name(d.a.s, ss[k]), d.a.bucket)]
    ELSE IF d.seq = <<>> THEN <<>>
    ELSE [k \in DOMAIN ss |-> d.seq[((k - 1) % Len(d.seq)) + 1]]

\* lines 104-112: the list _dsts
resolve(ss, d) ==
    IF d.form = "one" /\ d.a.kind \in {"str", "Path"}
    THEN [k \in DOMAIN ss |-> Str(dst_name(d.a.s, ss[k]))]
    ELSE IF d.form = "one"
    THEN [k \in DOMAIN ss |-> Blob(dst_name(d.a.s, ss[k]), d.a.bucket)]
    ELSE d.seq

ResolveInit ==
    /\ srcs \in SeqsUpTo(SrcPool, MaxBatch)
    /\ dsts \in {One(a) : a \in DirPool}
                    \cup {Many(q) : q \in SeqsUpTo(DstPool, MaxBatch)}
    /\ dsts_ = <<>> /\ submitted = <<>> /\ cf_pc = "resolve"
    /\ FlattenIdle /\ PoolIdle /\ CopyIdle /\ FileIdle /\ DirIdle

\* lines 104-112
Resolve ==
    /\ cf_pc = "resolve"
    /\ dsts_' = resolve(srcs, dsts)
    /\ cf_pc' = "submit"
    /\ UNCHANGED <<srcs, dsts, submitted>>
    /\ UNCHANGED <<flattenVars, poolVars, copyVars, fileVars, dirVars>>

\* lines 117-119: one turn of `for src, dst in zip(srcs, _dsts)`
Submit ==
    /\ cf_pc = "submit"
    /\ Len(submitted) < Min(Len(srcs), Len(dsts_))
    /\ submitted' = Append(submitted,
                           <<srcs[Len(submitted) + 1], dsts_[Len(submitted) + 1]>>)
    /\ UNCHANGED <<srcs, dsts, dsts_, cf_pc>>
    /\ UNCHANGED <<flattenVars, poolVars, copyVars, fileVars, dirVars>>

\* zip is exhausted
SubmitEnd ==
    /\ cf_pc = "submit"
    /\ Len(submitted) = Min(Len(srcs), Len(dsts_))
    /\ cf_pc' = "submitted"
    /\ UNCHANGED <<srcs, dsts, dsts_, submitted>>
    /\ UNCHANGED <<flattenVars, poolVars, copyVars, fileVars, dirVars>>

ResolveNext == Resolve \/ Submit \/ SubmitEnd
SpecResolve == ResolveInit /\ [][ResolveNext]_vars

Distinct(q) == \A j, k \in DOMAIN q : j # k => q[j] # q[k]
SubmittedDsts == [k \in DOMAIN submitted |-> submitted[k][2]]

\* C5 as stated: with one destination directory, pairwise distinct sources
\* are given pairwise distinct destinations.
C5_DistinctSourcesDistinctNames ==
    (cf_pc = "submitted" /\ dsts.form = "one" /\ Distinct(srcs))
        => Distinct(SubmittedDsts)

\* C5, amended: with one destination directory, one task per source is
\* submitted, the k-th to join(destination, flatten(source k)), as a string for
\* a str or Path destination and as a Blob of the same bucket for a Blob; two
\* of the names are equal exactly when the two flattened names are.
C5_NamesAreFlattened ==
    (cf_pc = "submitted" /\ dsts.form = "one") =>
        /\ Len(submitted) = Len(srcs)
        /\ \A k \in DOMAIN submitted :
              /\ submitted[k][1] = srcs[k]
              /\ submitted[k][2].s = join(dsts.a.s, flatten(srcs[k]))
              /\ submitted[k][2].kind = (IF dsts.a.kind = "Blob" THEN "Blob" ELSE "str")
              /\ submitted[k][2].bucket = dsts.a.bucket
        /\ \A j, k \in DOMAIN submitted :
              (submitted[j][2] = submitted[k][2])
                  <=> (flatten(srcs[j]) = flatten(srcs[k]))

\* Two distinct sources were submitted to the same destination name.
C5_Witness ==
    /\ cf_pc = "submitted" /\ dsts = One(Str(<<"o">>))
    /\ srcs = <<Str(<<"a", "/", "b">>), Str(<<"a", "-", "b">>)>>
    /\ Len(submitted) = 2
    /\ submitted[1][2] = Str(<<"o", "/", "a", "-", "b">>)
    /\ submitted[2][2] = submitted[1][2]

\* C12: with a sequence of destinations, copy_files submits exactly
\* min(len(srcs), len(dsts)) tasks, the k-th being (srcs[k], dsts[k]) with the
\* destination as given; what the longer sequence holds beyond that is
\* dropped, and submitting ends without an error.
C12_PositionalPairing ==
    /\ dsts.form = "seq" =>
          /\ Len(submitted) <= Min(Len(srcs), Len(dsts.seq))
          /\ \A k \in DOMAIN submitted : submitted[k] = <<srcs[k], dsts.seq[k]>>
    /\ (cf_pc = "submitted" /\ dsts.form = "seq") =>
          Len(submitted) = Min(Len(srcs), Len(dsts.seq))

\* Two sources and one destination: one task was submitted, and submitting
\* is over.
C12_Witness ==
    /\ cf_pc = "submitted" /\ dsts.form = "seq"
    /\ Len(srcs) = 2 /\ Len(dsts.seq) = 1
    /\ submitted = << <<srcs[1], dsts.seq[1]>> >>

\* One source and two destinations: the second destination was dropped.
C12_WitnessLongerDsts ==
    /\ cf_pc = "submitted" /\ dsts.form = "seq"
    /\ Len(srcs) = 1 /\ Len(dsts.seq) = 2 /\ Len(submitted) = 1

\* C14 as stated, in copy_files: with one destination directory, no task is
\* submitted to the directory itself.
C14_NeverTheDirectory ==
    (cf_pc = "submitted" /\ dsts.form = "one") =>
        \A k \in DOMAIN submitted :
            rstrip(submitted[k][2].s, {"/"}) # rstrip(dsts.a.s, {"/"})

-----------------------------------------------------------------------------
(* copy_files: the thread pool and the drain (lines 114-127), each task a   *)
(* copy_file call, that is _copy with _FILE_FUNCTIONS (lines 141-155)       *)

MaxTasks == 2
\* ThreadPoolExecutor(): the workers of the pool
PoolSize == 1

LocalA == Str(<<"a">>)
LocalO == Str(<<"o">>)
GsA == Str(<<"g", "s", ":", "/", "/", "b", "/", "a">>)
S3A == Str(<<"s", "3", ":", "/", "/", "b", "/", "a">>)
TaskPool == { <<LocalA, LocalO>>, <<GsA, LocalO>>, <<S3A, LocalO>> }

Tasks == DOMAIN batch
IsDone(k) == task[k].st \in {"done", "failed"}
Running == {k \in Tasks : task[k].st \in {"client", "strategy"}}
Queued == {k \in Tasks : task[k].st = "queued"}
Unsubmitted == {k \in Tasks : task[k].st = "unsubmitted"}
Least(S) == CHOOSE k \in S : \A j \in S : k <= j

\* A slip: only the source is looked at.
needs_client_src_only(src, dst) == parse_scheme(src) = GS

\* line 148: `"gs" not in schemes` is false
needs_client(src, dst) == GS \in {parse_scheme(src), parse_scheme(dst)}

Failed(k) == [line |-> "Failed to copy", src |-> k, n |-> 0, N |-> 0]

\* A slip: enumerate without its start argument counts from 0.
CopiedFromZero(k, n, NN) == [line |-> "Copied", src |-> k, n |-> n - 1, N |-> NN]

Copied(k, n, NN) == [line |-> "Copied", src |-> k, n |-> n, N |-> NN]

PoolInit ==
    /\ batch \in SeqsUpTo(TaskPool, MaxTasks)
    /\ client \in {"None", "injected"}
    /\ quiet \in BOOLEAN
    /\ pc = "submit"
    /\ task = [k \in DOMAIN batch |-> [st |-> "unsubmitted", cl |-> 0]]
    /\ completed = <<>> /\ finished = {} /\ yielded = {} /\ i = 0
    /\ clients = 0 /\ stdout = {} /\ raised = 0 /\ left = {}
    /\ FlattenIdle /\ ResolveIdle /\ CopyIdle /\ FileIdle /\ DirIdle

PoolFrame == UNCHANGED <<flattenVars, resolveVars, copyVars, fileVars, dirVars>>

\* lines 117-119: executor.submit(copy_file, src, dst, client=client, quiet=True)
ExecutorSubmit ==
    /\ pc = "submit" /\ Unsubmitted # {}
    /\ task' = [task EXCEPT ![Least(Unsubmitted)].st = "queued"]
    /\ UNCHANGED <<batch, client, quiet, pc, completed, finished, yielded, i,
                   clients, stdout, raised, left>>
    /\ PoolFrame

\* line 122: every pair is submitted; as_completed is called next
SubmitLoopEnd ==
    /\ pc = "submit" /\ Unsubmitted = {}
    /\ pc' = "as_completed"
    /\ UNCHANGED <<batch, client, quiet, task, completed, finished, yielded, i,
                   clients, stdout, raised, left>>
    /\ PoolFrame

\* A worker takes the oldest queued task and runs _copy up to line 154: the
\* two _parse_scheme calls raise ValueError outside every strategy.
WorkerTake(k) ==
    /\ Queued # {} /\ k = Least(Queued)
    /\ Cardinality(Running) < PoolSize
    /\ LET src == batch[k][1]
           dst == batch[k][2]
       IN IF ValueError \in {parse_scheme(src), parse_scheme(dst)}
          THEN /\ task' = [task EXCEPT ![k].st = "failed"]
               /\ completed' = Append(completed, k)
          ELSE /\ completed' = completed
               /\ task' = [task EXCEPT ![k] =
                     IF ~needs_client(src, dst) THEN [st |-> "strategy", cl |-> 0]
                     ELSE IF client # "None" THEN [st |-> "strategy", cl |-> -1]
                     ELSE [st |-> "client", cl |-> 0]]
    /\ UNCHANGED <<batch, client, quiet, pc, finished, yielded, i, clients,
                   stdout, raised, left>>
    /\ PoolFrame

\* line 154 with client=None: Client() is constructed, or raises
WorkerClient(k) ==
    /\ k \in Tasks /\ task[k].st = "client"
    /\ \/ /\ clients' = clients + 1
          /\ task' = [task EXCEPT ![k] = [st |-> "strategy", cl |-> clients + 1]]
          /\ completed' = completed
       \/ /\ clients' = clients
          /\ task' = [task EXCEPT ![k].st = "failed"]
          /\ completed' = Append(completed, k)
    /\ UNCHANGED <<batch, client, quiet, pc, finished, yielded, i, stdout,
                   raised, left>>
    /\ PoolFrame

\* lines 149/155: the strategy, wrapped by _log_elapsed_time_on_error and
\* called with quiet=True, returns or raises after printing.
WorkerStrategy(k) ==
    /\ k \in Tasks /\ task[k].st = "strategy"
    /\ \/ /\ task' = [task EXCEPT ![k].st = "done"]
          /\ stdout' = stdout
       \/ /\ task' = [task EXCEPT ![k].st = "failed"]
          /\ stdout' = stdout \cup {Failed(k)}
    /\ completed' = Append(completed, k)
    /\ UNCHANGED <<batch, client, quiet, pc, finished, yielded, i, clients,
                   raised, left>>
    /\ PoolFrame

\* line 122-123: as_completed starts: the futures already finished are set
\* aside, to be yielded first
AsCompleted ==
    /\ pc = "as_completed"
    /\ finished' = {k \in Tasks : IsDone(k)}
    /\ pc' = "drain"
    /\ UNCHANGED <<batch, client, quiet, task, completed, yielded, i, clients,
                   stdout, raised, left>>
    /\ PoolFrame

NotYielded(k) == k \notin yielded

\* A slip: any finished future may come next (as a wait() on the set gives).
YieldableAnyFinished == {k \in Tasks : IsDone(k)} \ yielded

\* The futures as_completed may yield next: those finished before it started
\* in any order (it holds them in a set), then the others as they finish.
Yieldable ==
    IF finished \ yielded # {} THEN finished \ yielded
    ELSE LET later == SelectSeq(completed, NotYielded)
         IN IF later = <<>> THEN {} ELSE {Head(later)}

\* lines 123-127: one turn of the loop: future.result() raises the task's
\* error, or the progress line is printed
NextFuture(k) ==
    /\ pc = "drain" /\ k \in Yieldable
    /\ i' = i + 1
    /\ yielded' = yielded \cup {k}
    /\ IF task[k].st = "failed"
       THEN /\ raised' = k
            /\ left' = {j \in Tasks : ~IsDone(j)}
            /\ pc' = "exit"
            /\ stdout' = stdout
       ELSE /\ stdout' = IF quiet THEN stdout
                         ELSE stdout \cup {Copied(k, i + 1, Len(batch))}
            /\ UNCHANGED <<raised, left, pc>>
    /\ UNCHANGED <<batch, client, quiet, task, completed, finished, clients>>
    /\ PoolFrame

\* line 123: as_completed is exhausted
DrainLoopEnd ==
    /\ pc = "drain" /\ yielded = Tasks
    /\ pc' = "exit"
    /\ UNCHANGED <<batch, client, quiet, task, completed, finished, yielded, i,
                   clients, stdout, raised, left>>
    /\ PoolFrame

\* A slip: shutdown(wait=False)
ExecutorNoWait == TRUE

\* line 114, leaving the with block: executor.shutdown(wait=True) returns
\* once the workers have run every submitted task
ExecutorJoined == \A k \in Tasks : IsDone(k)

ExecutorExit ==
    /\ pc = "exit" /\ ExecutorJoined
    /\ pc' = IF raised # 0 THEN "raised" ELSE "returned"
    /\ UNCHANGED <<batch, client, quiet, task, completed, finished, yielded, i,
                   clients, stdout, raised, left>>
    /\ PoolFrame

Next ==
    \/ ExecutorSubmit
    \/ SubmitLoopEnd
    \/ \E k \in Tasks : WorkerTake(k)
    \/ \E k \in Tasks : WorkerClient(k)
    \/ \E k \in Tasks : WorkerStrategy(k)
    \/ AsCompleted
    \/ \E k \in Tasks : NextFuture(k)
    \/ DrainLoopEnd
    \/ ExecutorExit
Spec == PoolInit /\ [][Next]_vars

IsFailed(k) == task[k].st = "failed"
FailedInOrder == SelectSeq(completed, IsFailed)

C2_WitnessLate ==
    /\ pc = "raised" /\ raised \notin finished /\ yielded # {raised}

\* C9 as stated: a call given no client constructs at most one, and every
\* task that uses a client uses the same one.
C9_OneClientPerCall ==
    /\ clients <= 1
    /\ \A j, k \in Tasks :
          (task[j].cl # 0 /\ task[k].cl # 0) => task[j].cl = task[k].cl

CopiedLines(k) == {l \in stdout : l.line = "Copied" /\ l.src = k}
AllCopiedLines == {l \in stdout : l.line = "Copied"}

C11_WitnessUnreported ==
    /\ pc = "raised" /\ ~quiet
    /\ \E k \in Tasks : task[k].st = "done" /\ CopiedLines(k) = {}

-----------------------------------------------------------------------------
(* _copy, one call from copy_file or copy_dir (lines 59-85, 133-155)        *)

CopyAddrs ==
    { Str(<<"a">>), Str(<<>>), Str(<<"a", ":", "b">>), Str(<<":", "a">>),
      Str(<<"g", "s", ":", "/", "/", "b", "/", "a">>),
      Str(<<"G", "s", ":", "/", "/", "b", "/", "a">>),
      Str(<<" ", "g", "s", ":", "/", "/", "b">>),
      Str(<<"g", " ", "s", ":", "/", "/", "b">>),
      Str(<<"f", "i", "l", "e", ":", "/", "/", "/", "a">>),
      Str(<<"s", "3", ":", "/", "/", "b", "/", "a">>),
      Str(<<"3", "s", ":", "/", "/", "b", "/", "a">>),
      Str(<<"/", "/", "[", "a">>),
      PathOf(<<"a">>), PathOf(<<"g", "s", ":", "/", "b", "/", "a">>),
      Blob(<<"a">>, <<"b">>) }

\* _FILE_FUNCTIONS and _DIR_FUNCTIONS (lines 486-498)
copy_fn(fn, src_scheme, dst_scheme) ==
    IF fn = "copy_file"
    THEN IF src_scheme = <<>> /\ dst_scheme = <<>> THEN "_copy_file"
         ELSE IF src_scheme = GS /\ dst_scheme = <<>> THEN "_download_file"
         ELSE IF src_scheme = <<>> /\ dst_scheme = GS THEN "_upload_file"
         ELSE "_copy_blob"
    ELSE IF src_scheme = <<>> /\ dst_scheme = <<>> THEN "_sync_files"
         ELSE IF src_scheme = GS /\ dst_scheme = <<>> THEN "_download_dir"
         ELSE IF src_scheme = <<>> /\ dst_scheme = GS THEN "_upload_dir"
         ELSE "_sync_blobs"

\* A slip: the diagnostic line is dropped when quiet.
on_error_unless_quiet(q) == IF q THEN {} ELSE {"Failed to copy"}

\* _log_elapsed_time_on_error (lines 254-261): what the wrapper prints when
\* the strategy raises, before it re-raises
on_error(q) == {"Failed to copy"}

CopyInit ==
    /\ c_fn \in {"copy_file", "copy_dir"}
    /\ c_src \in CopyAddrs /\ c_dst \in CopyAddrs
    /\ c_client \in {"None", "injected"}
    /\ c_quiet \in BOOLEAN
    /\ c_pc = "parse_src" /\ c_built = 0 /\ c_used = "unset"
    /\ c_strategy = "none" /\ c_stdout = {} /\ c_err = "none"
    /\ FlattenIdle /\ ResolveIdle /\ PoolIdle /\ FileIdle /\ DirIdle

CopyFrame == UNCHANGED <<flattenVars, resolveVars, poolVars, fileVars, dirVars>>

\* line 141
ParseSrc ==
    /\ c_pc = "parse_src"
    /\ IF parse_scheme(c_src) = ValueError
       THEN c_err' = "ValueError" /\ c_pc' = "raised"
       ELSE c_err' = c_err /\ c_pc' = "parse_dst"
    /\ UNCHANGED <<c_fn, c_src, c_dst, c_client, c_quiet, c_built, c_used,
                   c_strategy, c_stdout>>
    /\ CopyFrame

\* line 142
ParseDst ==
    /\ c_pc = "parse_dst"
    /\ IF parse_scheme(c_dst) = ValueError
       THEN c_err' = "ValueError" /\ c_pc' = "raised"
       ELSE c_err' = c_err /\ c_pc' = "dispatch"
    /\ UNCHANGED <<c_fn, c_src, c_dst, c_client, c_quiet, c_built, c_used,
                   c_strategy, c_stdout>>
    /\ CopyFrame

\* lines 143-148: the strategy is looked up; a local copy needs no client
Dispatch ==
    /\ c_pc = "dispatch"
    /\ IF needs_client(c_src, c_dst)
       THEN c_pc' = "client" /\ c_used' = c_used
       ELSE c_pc' = "call" /\ c_used' = "absent"
    /\ UNCHANGED <<c_fn, c_src, c_dst, c_client, c_quiet, c_built, c_strategy,
                   c_stdout, c_err>>
    /\ CopyFrame

\* line 154: client = client or Client(); the construction may raise
ClientOrNew ==
    /\ c_pc = "client"
    /\ IF c_client # "None"
       THEN /\ c_used' = c_client /\ c_pc' = "call"
            /\ UNCHANGED <<c_built, c_err>>
       ELSE \/ /\ c_built' = c_built + 1 /\ c_used' = "fresh" /\ c_pc' = "call"
               /\ c_err' = c_err
            \/ /\ c_err' = "ClientError" /\ c_pc' = "raised"
               /\ UNCHANGED <<c_built, c_used>>
    /\ UNCHANGED <<c_fn, c_src, c_dst, c_client, c_quiet, c_strategy, c_stdout>>
    /\ CopyFrame

\* lines 149/155: the wrapped strategy runs and returns, or prints and raises.
\* A strategy given a client constructs none of its own (`client or Client()`).
\* The four file strategies print "Copied" themselves unless quiet.
CallStrategy ==
    /\ c_pc = "call"
    /\ c_strategy' = copy_fn(c_fn, parse_scheme(c_src), parse_scheme(c_dst))
    /\ c_built' = IF c_used = "None" THEN c_built + 1 ELSE c_built
    /\ \/ /\ c_pc' = "returned" /\ c_err' = c_err
          /\ c_stdout' = IF c_fn = "copy_file" /\ ~c_quiet
                         THEN c_stdout \cup {"Copied"} ELSE c_stdout
       \/ /\ c_pc' = "raised" /\ c_err' = "StrategyError"
          /\ c_stdout' = c_stdout \cup on_error(c_quiet)
    /\ UNCHANGED <<c_fn, c_src, c_dst, c_client, c_quiet, c_used>>
    /\ CopyFrame

CopyNext == ParseSrc \/ ParseDst \/ Dispatch \/ ClientOrNew \/ CallStrategy
SpecCopy == CopyInit /\ [][CopyNext]_vars

\* The domain of an address, read off its form: a Path is local, a Blob is
\* remote, a string goes by its scheme.
Domain(a) ==
    IF a.kind = "Path" THEN "local"
    ELSE IF a.kind = "Blob" THEN "remote"
    ELSE IF url_raises(a.s) THEN "invalid"
    ELSE IF url_scheme(a.s) = <<>> \/ url_scheme(a.s) = FILE THEN "local"
    ELSE IF url_scheme(a.s) = GS THEN "remote"
    ELSE "invalid"

BothLocal == Domain(c_src) = "local" /\ Domain(c_dst) = "local"
SomeInvalid == Domain(c_src) = "invalid" \/ Domain(c_dst) = "invalid"

\* C3: when src and dst are both local no Client is constructed and the
\* strategy is called without one, a client passed in or not; when a side is
\* remote the strategy is given the client passed in, or else the one Client
\* that was constructed.
C3_ClientOnlyWhenRemote ==
    /\ BothLocal => c_built = 0 /\ c_used \in {"unset", "absent"}
    /\ (c_strategy # "none" /\ BothLocal) => c_used = "absent"
    /\ (c_strategy # "none" /\ ~BothLocal) =>
          /\ c_client = "injected" => c_used = "injected" /\ c_built = 0
          /\ c_client = "None" => c_used = "fresh" /\ c_built = 1

\* A local file was uploaded with no client passed in: one was constructed
\* and forwarded.
C3_Witness ==
    /\ c_pc = "returned" /\ c_strategy = "_upload_file"
    /\ c_client = "None" /\ c_used = "fresh" /\ c_built = 1

\* C4: a Path is local, a Blob remote, a string local or remote by its scheme
\* ("" or file, gs), and the strategy called is the one of that pair of
\* domains; with any other scheme on either side the call raises ValueError
\* and no strategy was called nor any Client constructed.
C4_ClassifyOrFail ==
    /\ c_strategy # "none" =>
          /\ ~SomeInvalid
          /\ c_strategy =
                copy_fn(c_fn, IF Domain(c_src) = "remote" THEN GS ELSE <<>>,
                        IF Domain(c_dst) = "remote" THEN GS ELSE <<>>)
    /\ SomeInvalid => c_strategy = "none" /\ c_built = 0 /\ c_used = "unset"
    /\ (SomeInvalid /\ c_pc \in {"returned", "raised"}) =>
          c_pc = "raised" /\ c_err = "ValueError"
    /\ (~SomeInvalid /\ c_pc \in {"returned", "raised"}) => c_err # "ValueError"

\* The destination alone carries an unknown scheme: the call has raised.
C4_Witness ==
    /\ c_pc = "raised" /\ c_err = "ValueError"
    /\ Domain(c_src) = "remote" /\ Domain(c_dst) = "invalid"
    /\ c_dst = Str(<<"s", "3", ":", "/", "/", "b", "/", "a">>)

\* C10 as stated: whenever the call raises, whatever the cause, a
\* "Failed to copy" line has been printed.
C10_EveryFailureLogged ==
    c_pc = "raised" => "Failed to copy" \in c_stdout

\* C10, amended: a "Failed to copy" line is printed before the error
\* propagates exactly when the error was raised inside the strategy, whatever
\* the value of quiet; an unrecognised scheme and a failing Client
\* construction in _copy raise without a line.
C10_StrategyFailureLogged ==
    c_pc = "raised" =>
        (c_err = "StrategyError" <=> "Failed to copy" \in c_stdout)

\* A strategy raised under quiet and the line is there.
C10_Witness ==
    /\ c_pc = "raised" /\ c_err = "StrategyError" /\ c_quiet
    /\ "Failed to copy" \in c_stdout

-----------------------------------------------------------------------------
(* The single-file strategies _download_file and _upload_file              *)
(* (lines 301-340), called by _copy with a client                          *)

\* urlparse(uri).path: what follows the scheme and, after "//", the netloc.
\* (No "?", "#" or ";" occurs in the addresses of the model.)
url_path(s) ==
    LET rest == url_rest(s) IN
    IF startswith(rest, <<"/", "/">>)
    THEN DropFirst(rest, 2 + Len(url_netloc(s)))
    ELSE rest

\* The %XX escapes the model decodes: <<X, X, character>>
Escapes == { <<"2", "F", "/">>, <<"2", "0", " ">>, <<"6", "1", "a">> }

\* urllib.parse.unquote_plus: "+" is a blank, then %XX is decoded
RECURSIVE unquote(_)
unquote(s) ==
    IF s = <<>> THEN <<>>
    ELSE IF Head(s) = "%" /\ Len(s) >= 3
            /\ \E e \in Escapes : e[1] = s[2] /\ e[2] = s[3]
    THEN <<(CHOOSE e \in Escapes : e[1] = s[2] /\ e[2] = s[3])[3]>>
             \o unquote(DropFirst(s, 3))
    ELSE <<Head(s)>> \o unquote(Tail(s))

unquote_plus(s) == unquote([k \in DOMAIN s |-> IF s[k] = "+" THEN " " ELSE s[k]])

\* _uri_to_filename (lines 188-190)
uri_to_filename(a) == IF a.kind = "str" THEN unquote_plus(url_path(a.s)) ELSE a.s

\* Blob.from_string(uri): the bucket is the netloc, the name the path after
\* its leading "/"
blob_from_string(s) == Blob(DropFirst(url_path(s), 1), url_netloc(s))
as_blob(a) == IF a.kind = "str" THEN blob_from_string(a.s) ELSE a

\* The local file system: f_dirs and f_files hold paths without a trailing "/"
trim(p) == IF p = <<"/">> THEN p ELSE rstrip(p, {"/"})
isdir(p) == p # <<>> /\ trim(p) \in f_dirs
\* open(p, "rb") succeeds
readable(p) == p \in f_files
\* open(p, "wb") succeeds: p is no directory and its directory exists
writable(p) ==
    /\ p # <<>> /\ ~endswith(p, <<"/">>) /\ p \notin f_dirs
    /\ dirname(p) = <<>> \/ isdir(dirname(p))

\* A slip: the basename is appended whether or not dst is a directory.
download_filename_always(src_name, dst_path) == join(dst_path, basename(src_name))

\* lines 314-317
download_filename(src_name, dst_path) ==
    IF isdir(dst_path) THEN join(dst_path, basename(src_name)) ELSE dst_path

\* A slip: the directory's own name is kept.
upload_name_verbatim(blob_name, src_path) == blob_name

\* lines 336-337
upload_name(blob_name, src_path) ==
    IF endswith(blob_name, <<"/">>) THEN join(blob_name, basename(src_path))
    ELSE blob_name

\* A slip: the destination name is kept even when it names a directory.
copy_blob_name_verbatim(src_name, blob_name) == blob_name

\* lines 434-437 of _copy_blob
copy_blob_name(src_name, blob_name) ==
    IF endswith(blob_name, <<"/">>) /\ ~endswith(src_name, <<"/">>)
    THEN join(blob_name, basename(src_name))
    ELSE blob_name

BK == <<"b">>
GsUri(name) == Str(<<"g", "s", ":", "/", "/", "b", "/">> \o name)
DownloadSrcs ==
    { GsUri(<<"a">>), GsUri(<<"d", "/", "a">>), GsUri(<<"d", "/">>),
      GsUri(<<"m">>), Blob(<<"d", "/", "a">>, BK) }
DownloadDsts ==
    { Str(<<"o">>), Str(<<"o", "/">>), Str(<<"o", "/", "n">>), Str(<<"n">>),
      Str(<<"q", "/", "n">>), Str(<<"o", "+", "n">>), Str(<<"o", "%", "2", "F">>),
      Str(<<"f", "i", "l", "e", ":", "/", "/", "/", "o">>), PathOf(<<"o">>),
      PathOf(<<"n">>) }
UploadSrcs ==
    { Str(<<"a">>), Str(<<"o", "/", "x">>), Str(<<"o", "/">>), Str(<<"m">>),
      Str(<<"f", "i", "l", "e", ":", "/", "/", "/", "o", "/", "x">>),
      PathOf(<<"a">>), PathOf(<<"o">>) }
UploadDsts ==
    { GsUri(<<"d", "/">>), GsUri(<<"d">>), GsUri(<<>>), Blob(<<"d", "/">>, BK),
      Blob(<<"d">>, BK), Blob(<<"/">>, BK) }

\* A second bucket, for a copy from one bucket to another
BK2 == <<"c">>
CopySrcs ==
    { GsUri(<<"a">>), GsUri(<<"d", "/", "a">>), GsUri(<<"d", "/">>),
      GsUri(<<"m">>), Blob(<<"d", "/", "a">>, BK), Blob(<<"d", "/">>, BK) }
CopyDsts ==
    { GsUri(<<"e", "/">>), GsUri(<<"e">>), GsUri(<<"d", "/">>),
      Blob(<<"e", "/">>, BK), Blob(<<"e", "/">>, BK2), Blob(<<"e">>, BK2),
      Blob(<<"/">>, BK) }

DirWorlds == { {}, {<<"o">>}, {<<"o">>, <<"/", "o">>}, {<<"o">>, <<"o", "/", "a">>} }
FileWorlds == { {<<"a">>, <<"o", "/", "x">>, <<"/", "o", "/", "x">>}, {<<"a">>} }
ObjectsAtStart == { <<BK, <<"a">>>>, <<BK, <<"d", "/", "a">>>>, <<BK, <<"d", "/">>>> }

FileInit ==
    /\ \/ /\ f_fn = "_download_file"
          /\ f_src \in DownloadSrcs /\ f_dst \in DownloadDsts
       \/ /\ f_fn = "_upload_file"
          /\ f_src \in UploadSrcs /\ f_dst \in UploadDsts
       \/ /\ f_fn = "_copy_blob"
          /\ f_src \in CopySrcs /\ f_dst \in CopyDsts
    /\ f_handle = f_dst
    /\ f_dirs \in DirWorlds
    /\ f_files \in {w \in FileWorlds : \A p \in w : dirname(p) = <<>> \/ dirname(p) \in f_dirs}
    /\ f_objects = ObjectsAtStart
    /\ f_target = <<>> /\ f_pc = "call"
    /\ FlattenIdle /\ ResolveIdle /\ PoolIdle /\ CopyIdle /\ DirIdle

FileFrame == UNCHANGED <<flattenVars, resolveVars, poolVars, copyVars, dirVars>>

\* _download_file (lines 310-320): the download raises when the object is
\* missing, when the file cannot be opened for writing, or on the network
DownloadFile ==
    /\ f_pc = "call" /\ f_fn = "_download_file"
    /\ LET src_ == as_blob(f_src)
           dst_ == uri_to_filename(f_dst)
           filename == download_filename(src_.s, dst_)
       IN /\ f_target' = filename
          /\ \/ /\ <<src_.bucket, src_.s>> \in f_objects /\ writable(filename)
                /\ f_files' = f_files \cup {filename}
                /\ f_pc' = "returned"
             \/ /\ f_files' = f_files
                /\ f_pc' = "raised"
    /\ UNCHANGED <<f_fn, f_src, f_dst, f_handle, f_dirs, f_objects>>
    /\ FileFrame

\* _upload_file (lines 332-340): line 337 renames the caller's Blob; the
\* upload raises when the file cannot be read, or on the network
UploadFile ==
    /\ f_pc = "call" /\ f_fn = "_upload_file"
    /\ LET src_ == uri_to_filename(f_src)
           dst_ == as_blob(f_dst)
           name == upload_name(dst_.s, src_)
       IN /\ f_target' = name
          /\ f_handle' = IF f_dst.kind = "Blob" THEN Blob(name, f_dst.bucket)
                         ELSE f_handle
          /\ \/ /\ readable(src_)
                /\ f_objects' = f_objects \cup {<<dst_.bucket, name>>}
                /\ f_pc' = "returned"
             \/ /\ f_objects' = f_objects
                /\ f_pc' = "raised"
    /\ UNCHANGED <<f_fn, f_src, f_dst, f_dirs, f_files>>
    /\ FileFrame

\* _copy_blob (lines 431-440): line 437 renames the caller's Blob; the copy
\* is made by the source's bucket into the destination's bucket, and raises
\* when the source object is missing, or on the network
CopyBlob ==
    /\ f_pc = "call" /\ f_fn = "_copy_blob"
    /\ LET src_ == as_blob(f_src)
           dst_ == as_blob(f_dst)
           name == copy_blob_name(src_.s, dst_.s)
       IN /\ f_target' = name
          /\ f_handle' = IF f_dst.kind = "Blob" THEN Blob(name, f_dst.bucket)
                         ELSE f_handle
          /\ \/ /\ <<src_.bucket, src_.s>> \in f_objects
                /\ f_objects' = f_objects \cup {<<dst_.bucket, name>>}
                /\ f_pc' = "returned"
             \/ /\ f_objects' = f_objects
                /\ f_pc' = "raised"
    /\ UNCHANGED <<f_fn, f_src, f_dst, f_dirs, f_files>>
    /\ FileFrame

FileNext == DownloadFile \/ UploadFile \/ CopyBlob
SpecFile == FileInit /\ [][FileNext]_vars

FileCalled == f_pc \in {"returned", "raised"}

\* C7: a download whose destination is an existing local directory targets
\* directory/basename(object name), the directory stays a directory and a
\* download that returns has left the file there; an upload whose destination
\* object name ends in "/" targets name + basename(source path), and an upload
\* that returns has written that object and not the one named by the
\* directory.  Otherwise the target is the destination itself: the local path
\* the address names, or the object name as given.
C7_DirectoryDestination ==
    /\ (FileCalled /\ f_fn = "_download_file") =>
          LET dir == uri_to_filename(f_dst)
              name == as_blob(f_src).s
          IN IF isdir(dir)
             THEN /\ f_target = join(dir, basename(name))
                  /\ trim(dir) \in f_dirs /\ trim(dir) \notin f_files
                  /\ f_pc = "returned" =>
                        /\ f_target \in f_files
                        /\ trim(f_target) # trim(dir)
             ELSE f_target = dir
    /\ (FileCalled /\ f_fn = "_upload_file") =>
          LET name == as_blob(f_dst).s
              src_ == uri_to_filename(f_src)
          IN IF endswith(name, <<"/">>)
             THEN /\ f_target = name \o basename(src_)
                  /\ f_pc = "returned" =>
                        /\ <<BK, f_target>> \in f_objects
                        /\ f_target # name
             ELSE f_target = name

\* An object was downloaded into an existing directory, under its basename.
C7_Witness ==
    /\ f_pc = "returned" /\ f_fn = "_download_file"
    /\ f_src = GsUri(<<"d", "/", "a">>) /\ f_dst = Str(<<"o">>)
    /\ <<"o">> \in f_dirs
    /\ f_target = <<"o", "/", "a">> /\ f_target \in f_files

\* A file was uploaded under a name ending in "/", with its basename appended.
C7_WitnessUpload ==
    /\ f_pc = "returned" /\ f_fn = "_upload_file"
    /\ f_src = Str(<<"o", "/", "x">>) /\ f_dst = GsUri(<<"d", "/">>)
    /\ f_target = <<"d", "/", "x">> /\ <<BK, f_target>> \in f_objects

\* C15: _copy_blob targets the destination's object name with
\* basename(source name) put after it exactly when the destination name ends
\* in "/" and the source name does not; in every other case it targets the
\* destination name as it is.  A copy that returns has written the object of
\* that name in the destination's bucket and nothing else; a copy that raises
\* has written nothing.
C15_CopyBlobName ==
    (FileCalled /\ f_fn = "_copy_blob") =>
        LET src_name == as_blob(f_src).s
            dst_name_ == as_blob(f_dst).s
            appended == f_target = dst_name_ \o basename(src_name)
                        /\ Len(f_target) = Len(dst_name_) + Len(basename(src_name))
        IN /\ (endswith(dst_name_, <<"/">>) /\ ~endswith(src_name, <<"/">>))
                => appended
           /\ ~(endswith(dst_name_, <<"/">>) /\ ~endswith(src_name, <<"/">>))
                => f_target = dst_name_
           /\ f_pc = "returned" =>
                f_objects = ObjectsAtStart \cup {<<as_blob(f_dst).bucket, f_target>>}
           /\ f_pc = "raised" => f_objects = ObjectsAtStart

\* An object was copied into a directory of another bucket under its
\* basename.
C15_Witness ==
    /\ f_fn = "_copy_blob" /\ f_pc = "returned"
    /\ f_src = Blob(<<"d", "/", "a">>, BK) /\ f_dst = Blob(<<"e", "/">>, BK2)
    /\ <<BK2, <<"e", "/", "a">>>> \in f_objects

\* A directory marker was copied to a directory name: nothing was appended.
C15_WitnessMarker ==
    /\ f_fn = "_copy_blob" /\ f_pc = "returned"
    /\ as_blob(f_src).s = <<"d", "/">> /\ as_blob(f_dst).s = <<"e", "/">>
    /\ f_target = <<"e", "/">>

\* C19 as stated: after the call, returned or raised, the address passed as
\* dst is what it was before: a Blob handle has the object name it had.
C19_HandleUnchanged ==
    FileCalled => f_handle = f_dst

-----------------------------------------------------------------------------
(* Paths as components: posixpath.abspath, relpath *)

RECURSIVE Split(_)
\* p.split("/")
Split(p) ==
    IF find(p, "/") = 0 THEN <<p>>
    ELSE <<SubSeq(p, 1, find(p, "/") - 1)>> \o Split(DropFirst(p, find(p, "/")))

DOT == <<".">>
DOTDOT == <<".", ".">>

\* posixpath.normpath on components: "" and "." are dropped, ".." drops the
\* component before it
RECURSIVE Norm(_, _)
Norm(todo, acc) ==
    IF todo = <<>> THEN acc
    ELSE IF Head(todo) \in {<<>>, DOT} THEN Norm(Tail(todo), acc)
    ELSE IF Head(todo) = DOTDOT
    THEN Norm(Tail(todo), IF acc = <<>> THEN acc ELSE SubSeq(acc, 1, Len(acc) - 1))
    ELSE Norm(Tail(todo), Append(acc, Head(todo)))

\* os.getcwd(), as components
Cwd == << <<"w">> >>

\* posixpath.abspath(p), as the components below "/"
abspath(p) ==
    Norm(IF startswith(p, <<"/">>) THEN Split(p) ELSE Cwd \o Split(p), <<>>)

RECURSIVE JoinComps(_)
JoinComps(cs) ==
    IF cs = <<>> THEN <<>>
    ELSE IF Len(cs) = 1 THEN cs[1]
    ELSE cs[1] \o <<"/">> \o JoinComps(Tail(cs))

IsPrefix(a, b) == Len(a) <= Len(b) /\ SubSeq(b, 1, Len(a)) = a
CommonLen(a, b) ==
    LET ks == {k \in 0..Min(Len(a), Len(b)) : SubSeq(a, 1, k) = SubSeq(b, 1, k)}
    IN CHOOSE k \in ks : \A j \in ks : j <= k

\* posixpath.relpath(path, start)
relpath(path, start) ==
    LET sl == abspath(start)
        pl == abspath(path)
        c == CommonLen(sl, pl)
        rel == [k \in 1..(Len(sl) - c) |-> DOTDOT] \o SubSeq(pl, c + 1, Len(pl))
    IN IF rel = <<>> THEN DOT ELSE JoinComps(rel)

Prefixes(cs) == {SubSeq(cs, 1, k) : k \in 1..Len(cs)}
Parent(cs) == SubSeq(cs, 1, Len(cs) - 1)

-----------------------------------------------------------------------------
(* The tree strategies _sync_files, _upload_dir, _download_dir, _sync_blobs *)
(* (lines 277-298, 343-419, 443-481), called by _copy with a client.        *)
(* d_src and d_dst are the roots as the strategy holds them: a local path   *)
(* or the name of the Blob.  Local files and directories of the destination *)
(* are absolute component sequences, objects are names.                     *)

Entry(path, type) == [path |-> path, type |-> type]

LocalTrees ==
    { {},
      { Entry(<<"s", "/", "a">>, "file"), Entry(<<"s", "/", "c">>, "dir"),
        Entry(<<"s", "/", "c", "/", "d">>, "file") },
      { Entry(<<"s", "/", "a">>, "file"), Entry(<<"s", "/", ".", "h">>, "file") },
      { Entry(<<"s", "/", ".", "c">>, "dir"),
        Entry(<<"s", "/", ".", "c", "/", "d">>, "file") },
      { Entry(<<"s", "/", "a">>, "file"), Entry(<<"s", "/", "k">>, "other") } }

RemoteTrees ==
    { {},
      { Entry(<<"s", "/", "a">>, "blob"), Entry(<<"s", "/", "c", "/", "d">>, "blob") },
      { Entry(<<"s", "/", "a">>, "blob"), Entry(<<"s", "x", "/", "b">>, "blob") },
      { Entry(<<"s", "/", "c", "/">>, "blob"),
        Entry(<<"s", "/", "c", "/", "d">>, "blob") },
      { Entry(<<"s">>, "blob"), Entry(<<"s", "/", "a">>, "blob") } }

SrcRoots == { <<"s">>, <<"s", "/">> }
LocalDsts == { <<"o">> }
RemoteDsts == { <<"t">>, <<"t", "/">>, <<>> }

IsHidden(c) == c # <<>> /\ c[1] = "."
\* The components of path below root (path lies under root)
Below(path, root) == SubSeq(abspath(path), Len(abspath(root)) + 1, Len(abspath(path)))
Under(path, root) ==
    IsPrefix(abspath(root), abspath(path)) /\ abspath(path) # abspath(root)

\* line 286: list(srcroot.rglob("*")): every entry below the root
rglob(root) == {e \in d_tree : Under(e.path, root)}

\* lines 394-395: glob(op.join(_src, "**"), recursive=True) kept if op.isfile:
\* "**" matches no name that starts with "." and enters no such directory
glob_files(root) ==
    {e \in d_tree :
        /\ e.type = "file" /\ Under(e.path, root)
        /\ \A k \in DOMAIN Below(e.path, root) : ~IsHidden(Below(e.path, root)[k])}

\* lines 355 and 455: client.list_blobs(bucket, prefix=_src.name)
list_blobs(prefix) == {e \in d_tree : startswith(e.path, prefix)}

DirInit ==
    /\ \/ /\ d_fn = "_sync_files" /\ d_tree \in LocalTrees /\ d_dst \in LocalDsts
       \/ /\ d_fn = "_upload_dir" /\ d_tree \in LocalTrees /\ d_dst \in RemoteDsts
       \/ /\ d_fn = "_download_dir" /\ d_tree \in RemoteTrees /\ d_dst \in LocalDsts
       \/ /\ d_fn = "_sync_blobs" /\ d_tree \in RemoteTrees /\ d_dst \in RemoteDsts
       \/ /\ d_fn = "copy_files" /\ d_tree \in RemoteTrees /\ d_dst \in LocalDsts
    /\ d_src \in (IF d_fn = "copy_files" THEN {<<>>} ELSE SrcRoots)
    /\ d_dirs \in {{Cwd}, {Cwd, abspath(<<"o">>)}}
    /\ d_todo = {} /\ d_written = {} /\ d_pending = {} /\ d_failed = FALSE
    /\ d_pc = "list"
    /\ FlattenIdle /\ ResolveIdle /\ PoolIdle /\ CopyIdle /\ FileIdle

DirFrame == UNCHANGED <<flattenVars, resolveVars, poolVars, copyVars, fileVars>>

\* lines 286, 355, 395, 455: the members of the source are listed
ListSource ==
    /\ d_pc = "list"
    /\ d_todo' = IF d_fn = "_sync_files" THEN rglob(d_src)
                 ELSE IF d_fn = "_upload_dir" THEN glob_files(d_src)
                 ELSE IF d_fn = "copy_files" THEN d_tree
                 ELSE list_blobs(d_src)
    /\ d_pc' = "loop"
    /\ UNCHANGED <<d_fn, d_src, d_dst, d_tree, d_dirs, d_written, d_pending,
                   d_failed>>
    /\ DirFrame

\* lines 287-298: one turn of the loop of _sync_files; rglob yields a
\* directory before what it holds
SyncFilesStep(e) ==
    /\ d_pc = "loop" /\ d_fn = "_sync_files" /\ e \in d_todo
    /\ \A o \in d_todo : ~Under(e.path, o.path)
    /\ d_todo' = d_todo \ {e}
    /\ LET dstpath == abspath(d_dst) \o Below(e.path, d_src) IN
       IF e.type = "dir"
       THEN \* dstpath.mkdir(exist_ok=True)
            IF Parent(dstpath) \in d_dirs /\ dstpath \notin d_written
            THEN d_dirs' = d_dirs \cup {dstpath} /\ UNCHANGED <<d_written, d_pc>>
            ELSE d_pc' = "raised" /\ UNCHANGED <<d_dirs, d_written>>
       ELSE IF e.type = "file"
       THEN \* shutil.copy2(srcpath, dstpath)
            IF Parent(dstpath) \in d_dirs /\ dstpath \notin d_dirs
            THEN d_written' = d_written \cup {dstpath} /\ UNCHANGED <<d_dirs, d_pc>>
            ELSE d_pc' = "raised" /\ UNCHANGED <<d_dirs, d_written>>
       ELSE UNCHANGED <<d_dirs, d_written, d_pc>>
    /\ UNCHANGED <<d_fn, d_src, d_dst, d_tree, d_pending, d_failed>>
    /\ DirFrame

\* lines 400-411: one upload is submitted
UploadDirSubmit(e) ==
    /\ d_pc = "loop" /\ d_fn = "_upload_dir" /\ e \in d_todo
    /\ d_todo' = d_todo \ {e}
    /\ d_pending' = d_pending \cup {join(d_dst, relpath(e.path, d_src))}
    /\ UNCHANGED <<d_fn, d_src, d_dst, d_tree, d_dirs, d_written, d_failed, d_pc>>
    /\ DirFrame

\* lines 360-371: the directory of the file is made, then one download is
\* submitted; os.makedirs raises when a file is in the way
DownloadDirSubmit(e) ==
    /\ d_pc = "loop" /\ d_fn = "_download_dir" /\ e \in d_todo
    /\ d_todo' = d_todo \ {e}
    /\ LET filename == join(d_dst, relpath(e.path, d_src))
           dir == abspath(dirname(filename))
       IN IF dirname(filename) # <<>> /\ Prefixes(dir) \cap d_written = {}
          THEN /\ d_dirs' = d_dirs \cup Prefixes(dir)
               /\ d_pending' = d_pending \cup {filename}
               /\ d_pc' = d_pc
          ELSE /\ d_pc' = "abort"
               /\ UNCHANGED <<d_dirs, d_pending>>
    /\ UNCHANGED <<d_fn, d_src, d_dst, d_tree, d_written, d_failed>>
    /\ DirFrame

\* lines 460-473: one _copy_blob is submitted, on the two URIs
SyncBlobsSubmit(e) ==
    /\ d_pc = "loop" /\ d_fn = "_sync_blobs" /\ e \in d_todo
    /\ d_todo' = d_todo \ {e}
    /\ LET new_name == join(d_dst, relpath(e.path, d_src))
           src_uri == blob_to_uri(Blob(e.path, BK))
           dst_uri == blob_to_uri(Blob(new_name, BK))
       IN d_pending' = d_pending \cup
              {copy_blob_name(blob_from_string(src_uri).s, blob_from_string(dst_uri).s)}
    /\ UNCHANGED <<d_fn, d_src, d_dst, d_tree, d_dirs, d_written, d_failed, d_pc>>
    /\ DirFrame

\* copy_files, lines 104-119, called with the objects of the bucket as srcs
\* and one local directory as dsts: copy_file is submitted on the source and
\* op.join(dsts, _flatten(src)); no directory is made
BatchSubmit(e) ==
    /\ d_pc = "loop" /\ d_fn = "copy_files" /\ e \in d_todo
    /\ d_todo' = d_todo \ {e}
    /\ d_pending' = d_pending \cup {dst_name(d_dst, GsUri(e.path))}
    /\ UNCHANGED <<d_fn, d_src, d_dst, d_tree, d_dirs, d_written, d_failed, d_pc>>
    /\ DirFrame

\* The strategies whose workers write local files
WritesLocal == d_fn \in {"_download_dir", "copy_files"}

\* A worker ends one submitted transfer: the file or object is written, or the
\* transfer raises (a download also when its file cannot be opened)
WorkerTransfer(target) ==
    /\ target \in d_pending
    /\ d_pending' = d_pending \ {target}
    /\ \/ /\ WritesLocal
          /\ abspath(target) \notin d_dirs /\ Parent(abspath(target)) \in d_dirs
          /\ d_written' = d_written \cup {abspath(target)}
          /\ d_failed' = d_failed
       \/ /\ ~WritesLocal
          /\ d_written' = d_written \cup {target}
          /\ d_failed' = d_failed
       \/ /\ d_failed' = TRUE
          /\ d_written' = d_written
    /\ UNCHANGED <<d_fn, d_src, d_dst, d_tree, d_todo, d_dirs, d_pc>>
    /\ DirFrame

\* The loop is over; leaving the with block waits for the workers, and
\* future.result() has raised if a transfer failed
TreeEnd ==
    /\ d_pc \in {"loop", "abort"} /\ (d_pc = "loop" => d_todo = {})
    /\ d_pending = {}
    /\ d_pc' = IF d_pc = "abort" \/ d_failed THEN "raised" ELSE "returned"
    /\ UNCHANGED <<d_fn, d_src, d_dst, d_tree, d_todo, d_dirs, d_written,
                   d_pending, d_failed>>
    /\ DirFrame

DirNext ==
    \/ ListSource
    \/ \E e \in d_todo : SyncFilesStep(e)
    \/ \E e \in d_todo : UploadDirSubmit(e)
    \/ \E e \in d_todo : DownloadDirSubmit(e)
    \/ \E e \in d_todo : SyncBlobsSubmit(e)
    \/ \E e \in d_todo : BatchSubmit(e)
    \/ \E target \in d_pending : WorkerTransfer(target)
    \/ TreeEnd
SpecDir == DirInit /\ [][DirNext]_vars

LocalSource == d_fn \in {"_sync_files", "_upload_dir"}
LocalDestination == d_fn \in {"_sync_files", "_download_dir"}
WithSlash(p) == IF p = <<>> \/ endswith(p, <<"/">>) THEN p ELSE p \o <<"/">>

\* The files of the source, relative to its root
SourceFiles ==
    IF LocalSource
    THEN {Below(e.path, d_src) : e \in {x \in d_tree : x.type = "file" /\ Under(x.path, d_src)}}
    ELSE {Split(DropFirst(e.path, Len(WithSlash(d_src)))) :
             e \in {x \in d_tree : /\ startswith(x.path, WithSlash(d_src))
                                   /\ ~endswith(x.path, <<"/">>)}}

\* The files of the destination, relative to its root
DestinationFiles ==
    IF LocalDestination
    THEN {SubSeq(f, Len(abspath(d_dst)) + 1, Len(f)) :
             f \in {x \in d_written : IsPrefix(abspath(d_dst), x)}}
    ELSE {Split(DropFirst(n, Len(WithSlash(d_dst)))) :
             n \in {x \in d_written : startswith(x, WithSlash(d_dst))}}

\* C6 as stated: when copy_dir into an existing, empty destination returns,
\* the files below the destination root are, path for path, those below the
\* source root.
C6_TreeCopyExact ==
    (d_pc = "returned" /\ d_fn # "copy_files" /\ (LocalDestination => abspath(d_dst) \in d_dirs))
        => DestinationFiles = SourceFiles

\* C16 as stated: whenever a download into a local directory is waiting in
\* the pool or running, in a tree copy or in a batch, the directory of its
\* target file exists.
C16_ParentExistsAtSubmit ==
    WritesLocal => \A target \in d_pending : Parent(abspath(target)) \in d_dirs

\* C17 as stated: a local to local tree copy ends by returning, with every
\* file of the source below the destination root and the root in place,
\* whether or not the root was there before.
C17_MirrorsCreatingDirs ==
    (d_fn = "_sync_files" /\ d_pc \in {"returned", "raised"}) =>
        /\ d_pc = "returned"
        /\ abspath(d_dst) \in d_dirs
        /\ DestinationFiles = SourceFiles

\* C18 as stated: every transfer submitted by a tree copy from a remote
\* source targets a path strictly below the destination root (a local path
\* once ".." is resolved, an object name that has the root as its prefix and
\* no ".." component).
C18_TargetsUnderRoot ==
    \A target \in d_pending :
        /\ d_fn = "_download_dir" => Under(target, d_dst)
        /\ d_fn = "_sync_blobs" =>
              /\ startswith(target, WithSlash(d_dst)) /\ target # WithSlash(d_dst)
              /\ \A k \in DOMAIN Split(target) : Split(target)[k] # DOTDOT

====
